---- MODULE Spec2Model ----
(***************************************************************************)
(* A model of homebridge-philips-somneo: the platform (SSDP discovery,     *)
(* deduplication, UPnP description fetch, accessory registration) and the  *)
(* accessory handler (in-memory characteristic state, periodic sensor      *)
(* refresh).  Every handler of the two source files is one action; the     *)
(* event loop runs one callback at a time, so each action is atomic.       *)
(***************************************************************************)
EXTENDS Integers, Sequences, FiniteSets, Bags, TLC

\* ------------------------------------------------------------------ bounds
\* Cached accessories the host restores through configureAccessory.
MaxCached == 1
\* External events in a run: SSDP responses, setInterval ticks and HomeKit
\* get/set requests together.  Completions of GETs already sent are not counted.
MaxEvents == 3

\* ------------------------------------------------------------------ inputs
\* headers.USN of an SSDP response.  "" is a response whose USN header has an
\* empty value.
USNs == {"", "uuid:somneo-1"}
\* rinfo.address of an SSDP response: each device answers from its own address.
Addresses == {"10.0.0.5", "10.0.0.6"}
DeviceAddress(usn) == IF usn = "" THEN "10.0.0.5" ELSE "10.0.0.6"
\* response.data of the sensor endpoint (values in tenths, so 215 is 21.5).
Readings ==
    { [mstmp |-> 215, msrhu |-> 450, mslux |-> 1200, mssnd |-> 0],
      [mstmp |-> 190, msrhu |-> 500, mslux |-> 30, mssnd |-> 70] }
\* Values HomeKit writes to Brightness; 150 is outside the expected 0..100.
BrightnessValues == {55, 150}
\* Why a description fetch fails: the GET is rejected, or the XML does not parse.
FetchFailures == {"http", "xml"}

\* ----------------------------------------------------------------- helpers
\* api.hap.uuid.generate: a hash of the USN, one UUID per distinct USN.
Uuid(usn) == <<"uuid", usn>>

Undefined == "<undefined>"

\* Array.prototype.find(usn => usn === x): the first element equal to x, or
\* undefined.
Find(seq, x) ==
    IF \E i \in 1..Len(seq) : seq[i] = x
    THEN seq[CHOOSE i \in 1..Len(seq) :
                 seq[i] = x /\ \A j \in 1..(i - 1) : seq[j] # x]
    ELSE Undefined

\* JavaScript truthiness of a string-or-undefined value, as tested by `if (...)`.
Truthy(v) == v # Undefined /\ v # ""

\* accessories.find(accessory => accessory.UUID === uuid) found something.
ExistingAccessory(accs, uuid) == \E i \in 1..Len(accs) : accs[i].UUID = uuid

FirstAccessory(accs, uuid) ==
    accs[CHOOSE i \in 1..Len(accs) :
             accs[i].UUID = uuid /\ \A j \in 1..(i - 1) : accs[j].UUID # uuid]

\* The accessory records the host may hold in its cache.
CachedPool == { [UUID |-> Uuid(u), address |-> DeviceAddress(u)] : u \in USNs }

\* private somneoState = { On: false, Brightness: 100, Temperature: 0, ... }
InitialSomneoState ==
    [On |-> FALSE, Brightness |-> 100, Temperature |-> 0, Humidity |-> 0,
     LightLevel |-> 0, Sound |-> 0]

NoReading == [mstmp |-> 0, msrhu |-> 0, mslux |-> 0, mssnd |-> 0]

\* The host's sensor characteristics before any updateValue.
NotPushed ==
    [pushed |-> FALSE, CurrentTemperature |-> 0, CurrentRelativeHumidity |-> 0,
     CurrentAmbientLightLevel |-> 0]

VARIABLES
    launched,         \* the host fired 'didFinishLaunching'
    searchIssued,     \* client.on('response') installed and client.search called
    accessories,      \* SomneoPlatform.accessories
    registered_usns,  \* SomneoPlatform.registered_usns
    descInFlight,     \* bag of description GETs not yet settled
    descFailed,       \* bag of description GETs that were rejected or did not parse
    hostRegistered,   \* bag of accessories passed to registerPlatformAccessories
    handlers,         \* the SomneoAccessory instances, in order of construction
    http,             \* GETs sent, per device address and endpoint
    events,           \* external events handled so far
    lastCall          \* the last characteristic handler run, with the value it
                      \* was given (set) or passed to its callback (get)

vars == <<launched, searchIssued, accessories, registered_usns, descInFlight,
          descFailed, hostRegistered, handlers, http, events, lastCall>>

platformVars == <<launched, searchIssued, accessories, registered_usns,
                  descInFlight, descFailed, hostRegistered>>

HandlerIds == 1..Len(handlers)

\* One more external event fits in the run.
Event ==
    /\ events < MaxEvents
    /\ events' = events + 1

\* ------------------------------------------------------------- construction
\* Variant: the constructor calls discoverDevices() itself instead of waiting
\* for 'didFinishLaunching'.
InitDiscoversAtOnce ==
    /\ launched = FALSE
    /\ searchIssued = TRUE
    /\ accessories = <<>>
    /\ registered_usns = <<>>
    /\ descInFlight = EmptyBag
    /\ descFailed = EmptyBag
    /\ hostRegistered = EmptyBag
    /\ handlers = <<>>
    /\ http = [a \in Addresses |-> [description |-> 0, wusrd |-> 0]]
    /\ events = 0
    /\ lastCall = [op |-> "none", value |-> 0]

Init ==
    /\ launched = FALSE
    /\ searchIssued = FALSE
    /\ accessories = <<>>
    /\ registered_usns = <<>>
    /\ descInFlight = EmptyBag
    /\ descFailed = EmptyBag
    /\ hostRegistered = EmptyBag
    /\ handlers = <<>>
    /\ http = [a \in Addresses |-> [description |-> 0, wusrd |-> 0]]
    /\ events = 0
    /\ lastCall = [op |-> "none", value |-> 0]

\* new SomneoAccessory(platform, accessory): the handler's fields after the
\* constructor, which calls updateSensorData() once and starts the interval.
\*   inflight         sensor GETs sent and not yet settled
\*   ticks            times the interval callback has run
\*   characteristics  the values last passed to updateValue
\*   lastLog          what the last settled refresh logged
\*   completed        the response of the last refresh that succeeded
NewHandler(accessory) ==
    [accessory |-> accessory,
     somneoState |-> InitialSomneoState,
     inflight |-> 1,
     ticks |-> 0,
     characteristics |-> NotPushed,
     lastLog |-> "none",
     completed |-> [done |-> FALSE, data |-> NoReading]]

\* The GET that updateSensorData() sends.
SensorGet(h_http, address) ==
    [h_http EXCEPT ![address].wusrd = @ + 1]

\* ---------------------------------------------------------------- platform
\* Homebridge restores its cached accessories before it fires
\* 'didFinishLaunching'.
configureAccessory(accessory) ==
    /\ ~launched
    /\ Len(accessories) < MaxCached
    /\ accessories' = Append(accessories, accessory)
    /\ UNCHANGED <<launched, searchIssued, registered_usns,
                   descInFlight, descFailed, hostRegistered, handlers, http,
                   events, lastCall>>

\* api.on('didFinishLaunching', ...) -> discoverDevices()
didFinishLaunching ==
    /\ ~launched
    /\ launched' = TRUE
    /\ searchIssued' = TRUE
    /\ UNCHANGED <<accessories, registered_usns, descInFlight,
                   descFailed, hostRegistered, handlers, http, events,
                   lastCall>>

\* Variant: no deduplication, every response is handled as a new one.
NeverRegistered(usns, usn) == FALSE

\* The deduplication test of the 'response' handler.
AlreadyRegistered(usns, usn) == Truthy(Find(usns, usn))

\* client.on('response', (headers, code, rinfo) => ...)
ssdpResponse(usn, address) ==
    /\ searchIssued
    /\ Event
    /\ IF AlreadyRegistered(registered_usns, usn)
       THEN UNCHANGED <<registered_usns, descInFlight, handlers, http>>
       ELSE /\ registered_usns' = Append(registered_usns, usn)
            /\ IF ExistingAccessory(accessories, Uuid(usn))
               THEN LET existing == FirstAccessory(accessories, Uuid(usn))
                    IN  /\ handlers' = Append(handlers, NewHandler(existing))
                        /\ http' = SensorGet(http, existing.address)
                        /\ UNCHANGED descInFlight
               ELSE /\ descInFlight' = descInFlight (+)
                            SetToBag({[UUID |-> Uuid(usn), address |-> address]})
                    /\ http' = [http EXCEPT ![address].description = @ + 1]
                    /\ UNCHANGED handlers
    /\ UNCHANGED <<launched, searchIssued, accessories, descFailed,
                   hostRegistered, lastCall>>

\* instance.get(endpoint).then(...): the XML parsed; the accessory is created,
\* its handler constructed, and it is registered with the host.
descriptionFetched(f) ==
    /\ BagIn(f, descInFlight)
    /\ descInFlight' = descInFlight (-) SetToBag({f})
    /\ handlers' = Append(handlers, NewHandler(f))
    /\ http' = SensorGet(http, f.address)
    /\ hostRegistered' = hostRegistered (+) SetToBag({f})
    /\ UNCHANGED <<launched, searchIssued, accessories, registered_usns,
                   descFailed, events, lastCall>>

\* Variant: on failure the accessory is still created, under its UUID, and
\* registered.
descriptionFailedRegisters(f, why) ==
    /\ BagIn(f, descInFlight)
    /\ why \in FetchFailures
    /\ descInFlight' = descInFlight (-) SetToBag({f})
    /\ descFailed' = descFailed (+) SetToBag({f})
    /\ handlers' = Append(handlers, NewHandler(f))
    /\ http' = SensorGet(http, f.address)
    /\ hostRegistered' = hostRegistered (+) SetToBag({f})
    /\ UNCHANGED <<launched, searchIssued, accessories, registered_usns,
                   events, lastCall>>

\* The GET is rejected, or the parse callback throws before the accessory is
\* created: .catch logs the error.
descriptionFailed(f, why) ==
    /\ BagIn(f, descInFlight)
    /\ why \in FetchFailures
    /\ descInFlight' = descInFlight (-) SetToBag({f})
    /\ descFailed' = descFailed (+) SetToBag({f})
    /\ UNCHANGED <<launched, searchIssued, accessories, registered_usns,
                   hostRegistered, handlers, http, events,
                   lastCall>>

\* --------------------------------------------------------------- accessory
\* Variant: setTimeout in place of setInterval, the timer fires once.
timerTickOnce(h) ==
    /\ h \in HandlerIds
    /\ handlers[h].ticks = 0
    /\ Event
    /\ handlers' = [handlers EXCEPT ![h].ticks = @ + 1, ![h].inflight = @ + 1]
    /\ http' = SensorGet(http, handlers[h].accessory.address)
    /\ UNCHANGED <<platformVars, lastCall>>

\* setInterval(() => this.updateSensorData(), 60 * 1000)
timerTick(h) ==
    /\ h \in HandlerIds
    /\ Event
    /\ handlers' = [handlers EXCEPT ![h].ticks = @ + 1, ![h].inflight = @ + 1]
    /\ http' = SensorGet(http, handlers[h].accessory.address)
    /\ UNCHANGED <<platformVars, lastCall>>

\* Variant: a copy-and-paste slip stores mstmp as the humidity too.
refreshSucceededSlip(h, data) ==
    /\ h \in HandlerIds
    /\ handlers[h].inflight > 0
    /\ handlers' =
         [handlers EXCEPT
            ![h].inflight = @ - 1,
            ![h].somneoState.Temperature = data.mstmp,
            ![h].somneoState.Humidity = data.mstmp,
            ![h].somneoState.LightLevel = data.mslux,
            ![h].somneoState.Sound = data.mssnd,
            ![h].characteristics =
                [pushed |-> TRUE,
                 CurrentTemperature |-> data.mstmp,
                 CurrentRelativeHumidity |-> data.mstmp,
                 CurrentAmbientLightLevel |-> data.mslux],
            ![h].lastLog = "Updating Sensors",
            ![h].completed = [done |-> TRUE, data |-> data]]
    /\ UNCHANGED <<platformVars, http, events, lastCall>>

\* updateSensorData: .then((response) => ...): the four fields are stored and
\* the three sensor characteristics pushed in one callback.
refreshSucceeded(h, data) ==
    /\ h \in HandlerIds
    /\ handlers[h].inflight > 0
    /\ handlers' =
         [handlers EXCEPT
            ![h].inflight = @ - 1,
            ![h].somneoState.Temperature = data.mstmp,
            ![h].somneoState.Humidity = data.msrhu,
            ![h].somneoState.LightLevel = data.mslux,
            ![h].somneoState.Sound = data.mssnd,
            ![h].characteristics =
                [pushed |-> TRUE,
                 CurrentTemperature |-> data.mstmp,
                 CurrentRelativeHumidity |-> data.msrhu,
                 CurrentAmbientLightLevel |-> data.mslux],
            ![h].lastLog = "Updating Sensors",
            ![h].completed = [done |-> TRUE, data |-> data]]
    /\ UNCHANGED <<platformVars, http, events, lastCall>>

\* Variant: a failed poll clears the stored readings.
refreshFailedClears(h) ==
    /\ h \in HandlerIds
    /\ handlers[h].inflight > 0
    /\ handlers' = [handlers EXCEPT ![h].inflight = @ - 1,
                                    ![h].lastLog = "error",
                                    ![h].somneoState.Temperature = 0,
                                    ![h].somneoState.Humidity = 0,
                                    ![h].somneoState.LightLevel = 0,
                                    ![h].somneoState.Sound = 0]
    /\ UNCHANGED <<platformVars, http, events, lastCall>>

\* updateSensorData: .catch((error) => ...)
refreshFailed(h) ==
    /\ h \in HandlerIds
    /\ handlers[h].inflight > 0
    /\ handlers' = [handlers EXCEPT ![h].inflight = @ - 1,
                                    ![h].lastLog = "error"]
    /\ UNCHANGED <<platformVars, http, events, lastCall>>

\* Every characteristic handler logs its value and calls its callback.
Serve(op, value) ==
    /\ Event
    /\ lastCall' = [op |-> op, value |-> value]

getTemperature(h) ==
    /\ h \in HandlerIds
    /\ Serve("getTemperature", handlers[h].somneoState.Temperature)
    /\ UNCHANGED <<platformVars, handlers, http>>

getHumidity(h) ==
    /\ h \in HandlerIds
    /\ Serve("getHumidity", handlers[h].somneoState.Humidity)
    /\ UNCHANGED <<platformVars, handlers, http>>

getLightLevel(h) ==
    /\ h \in HandlerIds
    /\ Serve("getLightLevel", handlers[h].somneoState.LightLevel)
    /\ UNCHANGED <<platformVars, handlers, http>>

getOn(h) ==
    /\ h \in HandlerIds
    /\ Serve("getOn", handlers[h].somneoState.On)
    /\ UNCHANGED <<platformVars, handlers, http>>

\* Variant: the power write also sends a command to the device.
setOnSendsCommand(h, value) ==
    /\ h \in HandlerIds
    /\ handlers' = [handlers EXCEPT ![h].somneoState.On = value]
    /\ Serve("setOn", value)
    /\ http' = SensorGet(http, handlers[h].accessory.address)
    /\ UNCHANGED platformVars

setOn(h, value) ==
    /\ h \in HandlerIds
    /\ handlers' = [handlers EXCEPT ![h].somneoState.On = value]
    /\ Serve("setOn", value)
    /\ UNCHANGED <<platformVars, http>>

\* Variant: the brightness is clamped to 100 before it is stored.
setBrightnessClamped(h, value) ==
    /\ h \in HandlerIds
    /\ handlers' = [handlers EXCEPT
                      ![h].somneoState.Brightness =
                          IF value > 100 THEN 100 ELSE value]
    /\ Serve("setBrightness", value)
    /\ UNCHANGED <<platformVars, http>>

setBrightness(h, value) ==
    /\ h \in HandlerIds
    /\ handlers' = [handlers EXCEPT ![h].somneoState.Brightness = value]
    /\ Serve("setBrightness", value)
    /\ UNCHANGED <<platformVars, http>>

\* ------------------------------------------------------------ specification
Next ==
    \/ \E accessory \in CachedPool : configureAccessory(accessory)
    \/ didFinishLaunching
    \/ \E usn \in USNs : ssdpResponse(usn, DeviceAddress(usn))
    \/ \E f \in BagToSet(descInFlight) : descriptionFetched(f)
    \/ \E f \in BagToSet(descInFlight), why \in FetchFailures :
           descriptionFailed(f, why)
    \/ \E h \in HandlerIds : timerTick(h)
    \/ \E h \in HandlerIds, data \in Readings : refreshSucceeded(h, data)
    \/ \E h \in HandlerIds : refreshFailed(h)
    \/ \E h \in HandlerIds : getTemperature(h)
    \/ \E h \in HandlerIds : getHumidity(h)
    \/ \E h \in HandlerIds : getLightLevel(h)
    \/ \E h \in HandlerIds : getOn(h)
    \/ \E h \in HandlerIds, value \in BOOLEAN : setOn(h, value)
    \/ \E h \in HandlerIds, value \in BrightnessValues : setBrightness(h, value)

Spec == Init /\ [][Next]_vars

\* setInterval is never cleared and every callback returns, so a handler's
\* timer callback runs again whenever it is due: weak fairness per handler.
\* Nothing else is fair: a GET has no timeout and may never settle, and the
\* host and the network owe the plugin no further event.
LiveSpec ==
    /\ Init
    /\ [][Next]_vars
    /\ \A h \in 1..MaxEvents : WF_vars(timerTick(h))

\* ------------------------------------------------------------------ claims
\* The description GET of a response with this USN, as the handler issues it.
Fetch(usn) == [UUID |-> Uuid(usn), address |-> DeviceAddress(usn)]

HandlersFor(uuid) == {h \in HandlerIds : handlers[h].accessory.UUID = uuid}

Failed(usn) == CopiesIn(Fetch(usn), descFailed) > 0

\* The response handled in this step started a description GET.
StartsFetch(usn) ==
    CopiesIn(Fetch(usn), descInFlight') = CopiesIn(Fetch(usn), descInFlight) + 1

RECURSIVE SumSet(_, _)
SumSet(S, bag) ==
    IF S = {} THEN 0
    ELSE LET e == CHOOSE x \in S : TRUE
         IN  CopiesIn(e, bag) + SumSet(S \ {e}, bag)

\* Copies in a bag of records whose address is a.
AtAddress(bag, a) == SumSet({e \in BagToSet(bag) : e.address = a}, bag)

\* The data of the handler's last successful refresh, zeros before the first.
LastGood(h) ==
    IF handlers[h].completed.done THEN handlers[h].completed.data ELSE NoReading

RECURSIVE RefreshesStarted(_, _)
\* Refreshes the first n handlers started towards address a: one at
\* construction and one per tick.
RefreshesStarted(a, n) ==
    IF n = 0 THEN 0
    ELSE (IF handlers[n].accessory.address = a THEN 1 + handlers[n].ticks ELSE 0)
         + RefreshesStarted(a, n - 1)

\* A characteristic handler of h runs in this step.
Requested(h) ==
    \/ getTemperature(h) \/ getHumidity(h) \/ getLightLevel(h) \/ getOn(h)
    \/ \E value \in BOOLEAN : setOn(h, value)
    \/ \E value \in BrightnessValues : setBrightness(h, value)

\* C1: for each USN, creation or restoration is triggered at most once: the
\* handlers built for it and the description GETs started for it (in flight,
\* failed) number at most one.
C1_OncePerUSN ==
    \A usn \in USNs :
        Cardinality(HandlersFor(Uuid(usn)))
            + CopiesIn(Fetch(usn), descInFlight)
            + CopiesIn(Fetch(usn), descFailed) <= 1

\* C2: registerPlatformAccessories is never called for a UUID in the restored
\* cache, and at most once for any other UUID.
C2_RegisteredAtMostOnce ==
    \A usn \in USNs :
        CopiesIn(Fetch(usn), hostRegistered)
            <= (IF ExistingAccessory(accessories, Uuid(usn)) THEN 0 ELSE 1)

\* C3: a failed sensor poll leaves the four stored readings and the values
\* pushed to the host as they were, and a read after a failure returns the
\* reading of the last successful poll (0 when there was none).
C3_FailedPollKeepsReadings ==
    [][\A h \in HandlerIds :
         /\ refreshFailed(h) =>
              /\ handlers'[h].somneoState = handlers[h].somneoState
              /\ handlers'[h].characteristics = handlers[h].characteristics
         /\ handlers[h].lastLog = "error" =>
              /\ getTemperature(h) => lastCall'.value = LastGood(h).mstmp
              /\ getHumidity(h) => lastCall'.value = LastGood(h).msrhu
              /\ getLightLevel(h) => lastCall'.value = LastGood(h).mslux]_vars

C3_Witness ==
    \E h \in HandlerIds :
        /\ handlers[h].lastLog = "error"
        /\ handlers[h].completed.done
        /\ lastCall.op = "getTemperature"
        /\ lastCall.value = handlers[h].completed.data.mstmp
        /\ handlers[h].somneoState.Temperature = handlers[h].completed.data.mstmp

\* C4: the stored readings are always the four fields of one response, that of
\* the last refresh to complete successfully (zeros before the first), and a
\* read of temperature, humidity or light level returns that response's field.
C4_ReadsSeeLatestRefresh ==
    /\ [](\A h \in HandlerIds :
            /\ handlers[h].somneoState.Temperature = LastGood(h).mstmp
            /\ handlers[h].somneoState.Humidity = LastGood(h).msrhu
            /\ handlers[h].somneoState.LightLevel = LastGood(h).mslux
            /\ handlers[h].somneoState.Sound = LastGood(h).mssnd)
    /\ [][\A h \in HandlerIds :
            /\ getTemperature(h) => lastCall'.value = LastGood(h).mstmp
            /\ getHumidity(h) => lastCall'.value = LastGood(h).msrhu
            /\ getLightLevel(h) => lastCall'.value = LastGood(h).mslux]_vars

C4_Witness ==
    \E h \in HandlerIds :
        /\ handlers[h].ticks = 1
        /\ handlers[h].inflight = 1
        /\ handlers[h].completed.done
        /\ lastCall.op = "getHumidity"
        /\ lastCall.value = handlers[h].completed.data.msrhu

\* C5: setOn changes only On, setBrightness changes only Brightness and stores
\* the value as given, and the get handlers change no field of any handler.
C5_WritesTouchOneField ==
    [][\A h \in HandlerIds :
         /\ \A value \in BOOLEAN :
              setOn(h, value) =>
                  handlers' = [handlers EXCEPT ![h].somneoState.On = value]
         /\ \A value \in BrightnessValues :
              setBrightness(h, value) =>
                  handlers' =
                      [handlers EXCEPT ![h].somneoState.Brightness = value]
         /\ (getOn(h) \/ getTemperature(h) \/ getHumidity(h)
                \/ getLightLevel(h)) => handlers' = handlers]_vars

C5_Witness ==
    \E h \in HandlerIds :
        /\ handlers[h].somneoState.Brightness = 150
        /\ handlers[h].somneoState.On = TRUE
        /\ handlers[h].somneoState.Temperature = 0

\* C6: the GETs sent to a device are the sensor refreshes started for it (one
\* per handler construction, one per tick) and the description fetches
\* started for it, and no get or set handler changes that number.
C6_OnlyRefreshesAndFetchesSend ==
    /\ [](\A a \in Addresses :
            /\ http[a].wusrd = RefreshesStarted(a, Len(handlers))
            /\ http[a].description =
                   AtAddress(descInFlight, a) + AtAddress(descFailed, a)
                       + AtAddress(hostRegistered, a))
    /\ [][(\E h \in HandlerIds : Requested(h)) => http' = http]_vars

C6_Witness ==
    \E a \in Addresses :
        /\ http[a].description = 1
        /\ http[a].wusrd = 2
        /\ lastCall.op = "setOn"

\* C7: a description fetch that fails creates no accessory record, constructs
\* no handler, sends no sensor GET and registers nothing with the host.
C7_FailedFetchCreatesNothing ==
    [][\A f \in BagToSet(descInFlight), why \in FetchFailures :
         descriptionFailed(f, why) =>
             /\ handlers' = handlers
             /\ hostRegistered' = hostRegistered
             /\ accessories' = accessories
             /\ http' = http]_vars

C7_Witness ==
    /\ descFailed # EmptyBag
    /\ descInFlight = EmptyBag
    /\ handlers = <<>>
    /\ hostRegistered = EmptyBag
    /\ accessories = <<>>

\* C8 as stated: a later response from a device whose description fetch
\* failed, and which is not registered, starts a new description fetch.
C8_LaterResponseFetchesAgain ==
    [][\A usn \in USNs :
         (/\ ssdpResponse(usn, DeviceAddress(usn))
          /\ Failed(usn)
          /\ CopiesIn(Fetch(usn), hostRegistered) = 0) => StartsFetch(usn)]_vars

\* C8 amended: a later response from a device whose description fetch failed
\* is dropped by the deduplication check: it starts no fetch and changes
\* nothing, and the device has no handler and is not registered for the rest
\* of the session.  Only the empty USN, which the check never recognises, is
\* fetched again.
C8_FailedDeviceStaysUnregistered ==
    /\ [][\A usn \in USNs :
            (ssdpResponse(usn, DeviceAddress(usn)) /\ Failed(usn)) =>
                IF usn = ""
                THEN StartsFetch(usn)
                ELSE UNCHANGED <<registered_usns, descInFlight, descFailed,
                                 hostRegistered, handlers, http>>]_vars
    /\ [](\A usn \in USNs :
            (usn # "" /\ Failed(usn)) =>
                /\ HandlersFor(Uuid(usn)) = {}
                /\ CopiesIn(Fetch(usn), hostRegistered) = 0
                /\ CopiesIn(Fetch(usn), descInFlight) = 0)

C8_Witness ==
    /\ Failed("uuid:somneo-1")
    /\ registered_usns = <<"uuid:somneo-1">>
    /\ events = 2
    /\ handlers = <<>>
    /\ hostRegistered = EmptyBag

C10_NothingBeforeLaunch ==
    ~launched =>
        /\ ~searchIssued
        /\ registered_usns = <<>>
        /\ descInFlight = EmptyBag
        /\ descFailed = EmptyBag
        /\ handlers = <<>>
        /\ hostRegistered = EmptyBag
        /\ \A a \in Addresses : http[a] = [description |-> 0, wusrd |-> 0]

C10_Witness ==
    /\ launched
    /\ Len(accessories) = 1
    /\ \E h \in HandlerIds : handlers[h].accessory = accessories[1]
    /\ hostRegistered = EmptyBag

====
